---- MODULE Spec2Model ----
(***************************************************************************)
(* Membership and invitation engine of the workspace member router        *)
(* (packages/api/src/routers/member.ts) over the member repository        *)
(* (member.repo: workspace_members and workspace_invite_link tables).     *)
(*                                                                         *)
(* Every handler is a request served by one of the request slots in       *)
(* Procs.  A handler that awaits several store or external calls is split *)
(* at those awaits, so that requests interleave exactly where the code    *)
(* yields; a handler with a single store write is one step.               *)
(***************************************************************************)
EXTENDS Integers, Sequences, FiniteSets, TLC

\* ---------------------------------------------------------------- bounds
MaxInvited == 2     \* workspace_members rows inserted by invite
MaxRedeemed == 2    \* workspace_members rows inserted by acceptInviteLink
MaxRows == 4        \* workspace_members rows, the two seeded ones included
MaxLinks == 1       \* workspace_invite_link rows inserted
MaxTime == 2        \* the clock runs over 0..MaxTime (days)
MaxSeats == 2       \* net seat increments issued per workspace

\* ------------------------------------------------------ program constants
MinExpiresIn == 1
MaxExpiresIn == 30
DefaultExpiresIn == 7
DefaultRole == "member"

\* ------------------------------------------------------------ input sets
Procs == {"p1", "p2"}
Users == {"u1", "u2", "u3"}
Ws == {"w1", "w2"}
WsInputs == {"w1", "wx"}
Codes == {"cA", "cB"}
Roles == {"member", "admin"}
ExpiresInInputs == {0, 1, 31}
SubKinds == {"none", "pro", "team", "teamUnlimited", "teamNoHandle"}

NoUser == "none"
NoTime == -1
PubBase == 100

Email(u) == CASE u = "u1" -> "e1" [] u = "u2" -> "e2" [] u = "u3" -> "e3" [] OTHER -> "none"
Emails == {Email(u) : u \in Users}

\* nanoid(12): a fresh code for every link
NanoId(n) == IF n = 0 THEN "cA" ELSE "cB"

VARIABLES
  members,     \* workspace_members rows, by id
  links,       \* workspace_invite_link rows, by id
  registered,  \* user accounts that exist
  seats,       \* net seat adjustment issued to the billing provider, per workspace
  mail,        \* magic-link dispatches requested: <<member id, delivered>>
  now,         \* the clock, new Date()
  env,         \* NEXT_PUBLIC_KAN_ENV
  subs,        \* the active subscription of each workspace
  proc,        \* the request each slot is serving: position and locals
  resp,        \* the response sent by the step just taken, if any
  crashed      \* links whose redemption stopped between create and mark

vars == <<members, links, registered, seats, mail, now, env, subs, proc, resp, crashed>>

store == <<members, links, seats, mail>>

world == <<registered, now, env, subs, crashed>>

\* ------------------------------------------------------------- requests
Idle ==
  [op |-> "idle", pc |-> "idle", user |-> NoUser, ws |-> "none", email |-> "none",
   mid |-> 0, lid |-> 0]

NoResp ==
  [op |-> "none", kind |-> "none", mid |-> 0, lid |-> 0, b1 |-> FALSE, b2 |-> FALSE,
   ids |-> {}, email |-> "none", msg |-> ""]

\* a TRPCError of code k, or the plain success of o; kind and msg are what the
\* caller is sent, the other fields record what the handler had at hand
Resp(o, k) == [NoResp EXCEPT !.op = o, !.kind = k]

Free(p) == proc[p].pc = "idle"

Quiet == \A p \in Procs : Free(p)

\* no response is on its way to a caller
Ready == resp = NoResp

\* the request of slot p moves on to r
Move(p, r) == Ready /\ proc' = [proc EXCEPT ![p] = r] /\ resp' = NoResp

\* the request of slot p returns or throws rsp
Finish(p, rsp) == Ready /\ proc' = [proc EXCEPT ![p] = Idle] /\ resp' = rsp

Pcs == {"i_seat", "i_create", "i_comp", "d_soft", "d_seat", "r_member", "r_create", "r_mark"}

Rows(from) == {i \in DOMAIN members : members[i].via = from}

Pending(pcs) == {p \in Procs : proc[p].pc \in pcs}

Inserting == Pending({"i_seat", "i_create", "r_member", "r_create"})

CanInvite ==
  /\ Len(members) + Cardinality(Inserting) < MaxRows
  /\ Cardinality(Rows("invite")) + Cardinality(Pending({"i_seat", "i_create"})) < MaxInvited

CanRedeem ==
  /\ Len(members) + Cardinality(Inserting) < MaxRows
  /\ Cardinality(Rows("link")) + Cardinality(Pending({"r_member", "r_create"})) < MaxRedeemed

\* --------------------------------------------------------------- users
getByEmail(e) ==
  IF \E u \in registered : Email(u) = e
  THEN CHOOSE u \in registered : Email(u) = e
  ELSE NoUser

\* ---------------------------------------------------------- workspaces
Live(ms, w) == {i \in DOMAIN ms : ms[i].ws = w /\ ms[i].deletedAt = NoTime}

\* workspace.members of getByPublicIdWithMembers
WorkspaceEmails(ms, w) == {ms[i].email : i \in Live(ms, w)}

isUserInWorkspace(ms, u, w) ==
  \E i \in Live(ms, w) : ms[i].userId = u /\ ms[i].status = "active"

\* assertUserInWorkspace(db, userId, workspaceId, "admin") does not throw
IsAdmin(ms, u, w) ==
  \E i \in Live(ms, w) : ms[i].userId = u /\ ms[i].role = "admin"

\* ------------------------------------------------------- subscriptions
\* a billing gate that finds a plan on every workspace
HasPlanAlways(w) == TRUE

HasPlan(w) == subs[w] # "none"

\* activeTeamSubscription?.stripeSubscriptionId && !unlimitedSeats, on cloud
\* a seat call due for every team subscription, whatever its flag or handle
NeedsSeatAnyTeam(w) ==
  env = "cloud" /\ subs[w] \in {"team", "teamUnlimited", "teamNoHandle"}

NeedsSeat(w) == env = "cloud" /\ subs[w] = "team"

\* ------------------------------------------------------- member.repo
\* via and link record which handler inserted the row, and for which link
MemberRow(id, w, e, u, r, s, from, l) ==
  [publicId |-> PubBase + id, ws |-> w, email |-> e, userId |-> u, role |-> r,
   status |-> s, deletedAt |-> NoTime, deletedBy |-> NoUser, via |-> from, link |-> l]

\* an insert that adds nothing when the workspace already holds a row with
\* the email that is not soft-deleted
createUnlessPresent(ms, w, e, u, r, s, from, l) ==
  IF \E i \in DOMAIN ms : ms[i].ws = w /\ ms[i].email = e /\ ms[i].deletedAt = NoTime
  THEN ms
  ELSE Append(ms, MemberRow(Len(ms) + 1, w, e, u, r, s, from, l))

create(ms, w, e, u, r, s, from, l) ==
  Append(ms, MemberRow(Len(ms) + 1, w, e, u, r, s, from, l))

getByPublicId(ms, pub) ==
  IF \E i \in DOMAIN ms : ms[i].publicId = pub
  THEN CHOOSE i \in DOMAIN ms : ms[i].publicId = pub
  ELSE 0

\* an accept that activates the row without linking the account
acceptInviteStatusOnly(ms, id, u) == [ms EXCEPT ![id].status = "active"]

acceptInvite(ms, id, u) ==
  [ms EXCEPT ![id].status = "active", ![id].userId = u]

softDeleteHits(ms, id) == id \in DOMAIN ms /\ ms[id].deletedAt = NoTime

\* a soft delete that also rewrites the status of the row
softDeleteSetsStatus(ms, id, t, by) ==
  IF softDeleteHits(ms, id)
  THEN [ms EXCEPT ![id].deletedAt = t, ![id].deletedBy = by, ![id].status = "removed"]
  ELSE ms

\* a soft-delete without the condition that deletedAt is null
softDeleteUnconditional(ms, id, t, by) ==
  [ms EXCEPT ![id].deletedAt = t, ![id].deletedBy = by]

softDelete(ms, id, t, by) ==
  IF softDeleteHits(ms, id)
  THEN [ms EXCEPT ![id].deletedAt = t, ![id].deletedBy = by]
  ELSE ms

LinkRow(w, c, by, r, t, exp) ==
  [ws |-> w, code |-> c, createdBy |-> by, role |-> r, createdAt |-> t,
   expiresAt |-> exp, isUsed |-> FALSE, usedAt |-> NoTime, usedBy |-> NoUser]

createInviteLink(ls, w, c, by, r, t, exp) == Append(ls, LinkRow(w, c, by, r, t, exp))

getInviteLinkByCode(ls, c) ==
  IF \E l \in DOMAIN ls : ls[l].code = c
  THEN CHOOSE l \in DOMAIN ls : ls[l].code = c
  ELSE 0

\* the use-marking without the isUsed flag
markInviteLinkAsUsedNoFlag(ls, l, t, u) ==
  [ls EXCEPT ![l].usedAt = t, ![l].usedBy = u]

markInviteLinkAsUsed(ls, l, t, u) ==
  [ls EXCEPT ![l].isUsed = TRUE, ![l].usedAt = t, ![l].usedBy = u]

getInviteLinksByWorkspaceId(ls, w) ==
  {l \in DOMAIN ls : ls[l].ws = w /\ ~ls[l].isUsed}

\* what is left at the id of a hard-deleted link: it matches no workspace
\* and no code, and its id is not given out again (BIGSERIAL)
GoneLink == LinkRow("none", "none", NoUser, "none", NoTime, NoTime)

\* delete from workspace_invite_link where id = inviteLinkId
deleteInviteLink(ls, id) == IF id \in DOMAIN ls THEN [ls EXCEPT ![id] = GoneLink] ELSE ls

\* ------------------------------------------------------------- Init
TypeOK ==
  /\ Len(members) <= MaxRows
  /\ Len(links) <= MaxLinks
  /\ registered \subseteq Users
  /\ now \in 0..MaxTime
  /\ env \in {"cloud", "selfhost"}
  /\ \A p \in Procs : proc[p].pc \in Pcs \cup {"idle"}
  /\ \A p \in Procs : proc[p].mid \in 0..Len(members) /\ proc[p].lid \in 0..Len(links)

Init ==
  /\ members = << MemberRow(1, "w1", Email("u1"), "u1", "admin", "active", "seed", 0),
                  MemberRow(2, "w2", Email("u2"), "u2", "admin", "active", "seed", 0) >>
  /\ links = << >>
  /\ registered = {"u1", "u2"}
  /\ seats = [w \in Ws |-> 0]
  /\ mail = {}
  /\ now = 0
  /\ env \in {"cloud", "selfhost"}
  /\ subs \in [Ws -> SubKinds]
  /\ env = "selfhost" => subs["w1"] = "none"
  /\ subs["w2"] = "none"
  /\ proc = [p \in Procs |-> Idle]
  /\ resp = NoResp
  /\ crashed = {}

\* ======================================================= memberRouter.invite
\* the checks of invite with the seat increment left for later
InviteGateNoSeat(u, w, e) ==
  IF u = NoUser THEN "Unauthorized"
  ELSE IF w \notin Ws THEN "NotFound"
  ELSE IF ~IsAdmin(members, u, w) THEN "Forbidden"
  ELSE IF e \in WorkspaceEmails(members, w) THEN "Conflict"
  ELSE IF env = "cloud" /\ ~HasPlan(w) THEN "NotFound"
  ELSE "i_create"

\* the checks of invite with the email check left out
InviteGateNoConflict(u, w, e) ==
  IF u = NoUser THEN "Unauthorized"
  ELSE IF w \notin Ws THEN "NotFound"
  ELSE IF ~IsAdmin(members, u, w) THEN "Forbidden"
  ELSE IF env = "cloud" /\ ~HasPlan(w) THEN "NotFound"
  ELSE IF NeedsSeat(w) THEN "i_seat"
  ELSE "i_create"

\* the checks of invite up to the billing gate: the error thrown, or the
\* position the handler goes on to
InviteGate(u, w, e) ==
  IF u = NoUser THEN "Unauthorized"
  ELSE IF w \notin Ws THEN "NotFound"
  ELSE IF ~IsAdmin(members, u, w) THEN "Forbidden"
  ELSE IF e \in WorkspaceEmails(members, w) THEN "Conflict"
  ELSE IF env = "cloud" /\ ~HasPlan(w) THEN "NotFound"
  ELSE IF NeedsSeat(w) THEN "i_seat"
  ELSE "i_create"

\* the message of the billing gate's NOT_FOUND, which tells it from the
\* NOT_FOUND of a workspace that does not exist; other messages are left empty
InviteMessage(g, w) ==
  IF g = "NotFound" /\ w \in Ws THEN "does not have an active subscription" ELSE ""

InviteStart(p, u, w, e) ==
  /\ Free(p)
  /\ CanInvite
  /\ w \in Ws => seats[w] < MaxSeats
  /\ LET g == InviteGate(u, w, e) IN
       IF g \in Pcs
       THEN Move(p, [Idle EXCEPT !.op = "invite", !.pc = g, !.user = u, !.ws = w, !.email = e])
       ELSE Finish(p, [Resp("invite", g) EXCEPT !.email = e, !.msg = InviteMessage(g, w)])
  /\ UNCHANGED <<store, world>>

\* the seat increment with its error swallowed
AfterSeatIncrementFailOpen(ok) == "i_create"

\* try { updateSubscriptionSeats(id, 1) } catch { throw INTERNAL_SERVER_ERROR }
AfterSeatIncrement(ok) == IF ok THEN "i_create" ELSE "Internal"

InviteSeat(p) ==
  /\ proc[p].pc = "i_seat"
  /\ \E ok \in BOOLEAN :
       /\ seats' = IF ok THEN [seats EXCEPT ![proc[p].ws] = @ + 1] ELSE seats
       /\ LET g == AfterSeatIncrement(ok) IN
            IF g \in Pcs
            THEN Move(p, [proc[p] EXCEPT !.pc = g])
            ELSE Finish(p, [Resp("invite", g) EXCEPT !.b1 = ~ok])
  /\ UNCHANGED <<members, links, mail, world>>

\* memberRepo.create of the invited row, then signInMagicLink
InviteCreate(p) ==
  /\ proc[p].pc = "i_create"
  /\ LET r == proc[p]
         id == Len(members) + 1
     IN /\ members' = create(members, r.ws, r.email, getByEmail(r.email), "member",
                             "invited", "invite", 0)
        /\ \E status \in BOOLEAN :
             /\ mail' = mail \cup {<<id, status>>}
             /\ IF status
                THEN Finish(p, [Resp("invite", "ok") EXCEPT !.mid = id])
                ELSE Move(p, [r EXCEPT !.pc = "i_comp", !.mid = id])
  /\ UNCHANGED <<links, seats, world>>

\* a failed dispatch that leaves the invited row in place
InviteCompensationSkipped(ms, id, t, by) == ms

\* the members table after the compensation of a failed dispatch
InviteCompensation(ms, id, t, by) == softDelete(ms, id, t, by)

InviteCompensate(p) ==
  /\ proc[p].pc = "i_comp"
  /\ members' = InviteCompensation(members, proc[p].mid, now, proc[p].user)
  /\ Finish(p, [Resp("invite", "Internal") EXCEPT !.mid = proc[p].mid])
  /\ UNCHANGED <<links, seats, mail, world>>

\* ======================================================= memberRouter.delete
RemoveGate(u, w, pub) ==
  IF u = NoUser THEN "Unauthorized"
  ELSE IF w \notin Ws THEN "NotFound"
  ELSE IF ~IsAdmin(members, u, w) THEN "Forbidden"
  ELSE IF getByPublicId(members, pub) = 0 THEN "NotFound"
  ELSE "d_soft"

RemoveStart(p, u, w, pub) ==
  /\ Free(p)
  /\ LET g == RemoveGate(u, w, pub) IN
       IF g \in Pcs
       THEN Move(p, [Idle EXCEPT !.op = "remove", !.pc = g, !.user = u, !.ws = w,
                                 !.mid = getByPublicId(members, pub)])
       ELSE Finish(p, Resp("remove", g))
  /\ UNCHANGED <<store, world>>

\* the test of softDelete's result inverted, reporting the member missing
AfterSoftDeleteInverted(hit, w) ==
  IF hit THEN "NotFound" ELSE IF NeedsSeat(w) THEN "d_seat" ELSE "ok"

\* after softDelete: the error thrown when it returned no row, the seat
\* decrement when one is due, or the success
AfterSoftDelete(hit, w) ==
  IF ~hit THEN "Internal" ELSE IF NeedsSeat(w) THEN "d_seat" ELSE "ok"

RemoveSoftDelete(p) ==
  /\ proc[p].pc = "d_soft"
  /\ LET r == proc[p]
         g == AfterSoftDelete(softDeleteHits(members, r.mid), r.ws)
     IN /\ members' = softDelete(members, r.mid, now, r.user)
        /\ IF g \in Pcs
           THEN Move(p, [r EXCEPT !.pc = g])
           ELSE Finish(p, [Resp("remove", g) EXCEPT !.mid = r.mid])
  /\ UNCHANGED <<links, seats, mail, world>>

\* the seat decrement with its error rethrown
AfterSeatDecrementFailClosed(ok) == IF ok THEN "ok" ELSE "Internal"

\* try { updateSubscriptionSeats(id, -1) } catch { console.error }
AfterSeatDecrement(ok) == "ok"

RemoveSeat(p) ==
  /\ proc[p].pc = "d_seat"
  /\ \E ok \in BOOLEAN :
       /\ seats' = IF ok THEN [seats EXCEPT ![proc[p].ws] = @ - 1] ELSE seats
       /\ Finish(p, [Resp("remove", AfterSeatDecrement(ok)) EXCEPT !.mid = proc[p].mid,
                                                                  !.b1 = ~ok])
  /\ UNCHANGED <<members, links, mail, world>>

\* ============================================= memberRouter.acceptInviteLink
\* the validity check with the expiry instant excluded
InviteInvalidAtExpiry(ls, l, t) == l = 0 \/ ls[l].isUsed \/ t >= ls[l].expiresAt

\* !invite || invite.isUsed || new Date() > invite.expiresAt
InviteInvalid(ls, l, t) == l = 0 \/ ls[l].isUsed \/ t > ls[l].expiresAt

\* a rejection that names its reason
InviteRejectionByReason(ls, l, t) ==
  IF l = 0 THEN "Invite link not found"
  ELSE IF ls[l].isUsed THEN "Invite link already used"
  ELSE "Invite link expired"

\* message: `Invalid or expired invite link`, for every reason
InviteRejection(ls, l, t) == "Invalid or expired invite link"

RedeemStart(p, u, c) ==
  /\ Free(p)
  /\ CanRedeem
  /\ LET l == getInviteLinkByCode(links, c) IN
       IF InviteInvalid(links, l, now)
       THEN Finish(p, [Resp("redeem", "BadRequest") EXCEPT
                         !.lid = l, !.msg = InviteRejection(links, l, now)])
       ELSE Move(p, [Idle EXCEPT !.op = "redeem", !.pc = "r_member", !.user = u, !.lid = l])
  /\ UNCHANGED <<store, world>>

RedeemGate(u, w) ==
  IF isUserInWorkspace(members, u, w) THEN "Conflict"
  ELSE IF u \notin registered THEN "NotFound"
  ELSE "r_create"

RedeemCheckMember(p) ==
  /\ proc[p].pc = "r_member"
  /\ LET r == proc[p]
         g == RedeemGate(r.user, links[r.lid].ws)
     IN IF g \in Pcs
        THEN Move(p, [r EXCEPT !.pc = g])
        ELSE Finish(p, [Resp("redeem", g) EXCEPT !.lid = r.lid])
  /\ UNCHANGED <<store, world>>

\* the member row created with the role of an email invite
RedeemCreateAsMember(p) ==
  /\ proc[p].pc = "r_create"
  /\ LET r == proc[p]
         invite == links[r.lid]
     IN /\ members' = create(members, invite.ws, Email(r.user), r.user, "member",
                             "active", "link", r.lid)
        /\ Move(p, [r EXCEPT !.pc = "r_mark", !.mid = Len(members) + 1])
  /\ UNCHANGED <<links, seats, mail, world>>

RedeemCreate(p) ==
  /\ proc[p].pc = "r_create"
  /\ LET r == proc[p]
         invite == links[r.lid]
     IN /\ members' = create(members, invite.ws, Email(r.user), r.user, invite.role,
                             "active", "link", r.lid)
        /\ Move(p, [r EXCEPT !.pc = "r_mark", !.mid = Len(members) + 1])
  /\ UNCHANGED <<links, seats, mail, world>>

\* a redemption that adds a seat for the member it created
RedeemMarkWithSeat(p) ==
  /\ proc[p].pc = "r_mark"
  /\ links' = markInviteLinkAsUsed(links, proc[p].lid, now, proc[p].user)
  /\ LET w == links[proc[p].lid].ws IN
       seats' = IF NeedsSeat(w) THEN [seats EXCEPT ![w] = @ + 1] ELSE seats
  /\ Finish(p, [Resp("redeem", "ok") EXCEPT !.mid = proc[p].mid, !.lid = proc[p].lid])
  /\ UNCHANGED <<members, mail, world>>

RedeemMark(p) ==
  /\ proc[p].pc = "r_mark"
  /\ links' = markInviteLinkAsUsed(links, proc[p].lid, now, proc[p].user)
  /\ Finish(p, [Resp("redeem", "ok") EXCEPT !.mid = proc[p].mid, !.lid = proc[p].lid])
  /\ UNCHANGED <<members, seats, mail, world>>

\* ============================================ memberRouter.generateInviteLink
\* the checks of generateInviteLink with .max(30) left out of the input schema
GenerateGateNoMax(u, w, n) ==
  IF n < MinExpiresIn THEN "BadRequest"
  ELSE IF u = NoUser THEN "Unauthorized"
  ELSE IF w \notin Ws THEN "NotFound"
  ELSE IF ~IsAdmin(members, u, w) THEN "Forbidden"
  ELSE IF env = "cloud" /\ ~HasPlan(w) THEN "Forbidden"
  ELSE "ok"

GenerateGate(u, w, n) ==
  IF n \notin MinExpiresIn..MaxExpiresIn THEN "BadRequest"
  ELSE IF u = NoUser THEN "Unauthorized"
  ELSE IF w \notin Ws THEN "NotFound"
  ELSE IF ~IsAdmin(members, u, w) THEN "Forbidden"
  ELSE IF env = "cloud" /\ ~HasPlan(w) THEN "Forbidden"
  ELSE "ok"

GenerateInviteLink(p, u, w, role, n) ==
  /\ Free(p)
  /\ Len(links) < MaxLinks
  /\ LET g == GenerateGate(u, w, n) IN
       IF g = "ok"
       THEN /\ links' = createInviteLink(links, w, NanoId(Len(links)), u, role, now, now + n)
            /\ Finish(p, [Resp("generate", "ok") EXCEPT !.lid = Len(links) + 1])
       ELSE /\ links' = links
            /\ Finish(p, Resp("generate", g))
  /\ UNCHANGED <<members, seats, mail, world>>

\* ================================================= memberRouter.getInviteInfo
\* the expiry report with the expiry instant counted as expired
isExpiredAtExpiry(ls, l, t) == t >= ls[l].expiresAt

\* const isExpired = now > invite.expiresAt
isExpired(ls, l, t) == t > ls[l].expiresAt

\* an info query that serves only links that can still be redeemed
GetInviteInfoValidOnly(p, c) ==
  /\ Free(p)
  /\ LET l == getInviteLinkByCode(links, c) IN
       IF l = 0 \/ links[l].isUsed \/ now > links[l].expiresAt
       THEN Finish(p, Resp("info", "NotFound"))
       ELSE Finish(p, [Resp("info", "ok") EXCEPT !.lid = l, !.b1 = FALSE, !.b2 = FALSE])
  /\ UNCHANGED <<store, world>>

GetInviteInfo(p, c) ==
  /\ Free(p)
  /\ LET l == getInviteLinkByCode(links, c) IN
       IF l = 0
       THEN Finish(p, Resp("info", "NotFound"))
       ELSE Finish(p, [Resp("info", "ok") EXCEPT !.lid = l, !.b1 = isExpired(links, l, now),
                                                 !.b2 = links[l].isUsed])
  /\ UNCHANGED <<store, world>>

\* ================================================ memberRouter.getInviteLinks
ListGate(u, w) ==
  IF u = NoUser THEN "Unauthorized"
  ELSE IF w \notin Ws THEN "NotFound"
  ELSE IF ~IsAdmin(members, u, w) THEN "Forbidden"
  ELSE "ok"

\* a listing without the filter on expiresAt
ListedIgnoringExpiry(ls, w, t) == getInviteLinksByWorkspaceId(ls, w)

Listed(ls, w, t) == {l \in getInviteLinksByWorkspaceId(ls, w) : ls[l].expiresAt > t}

ListInviteLinks(p, u, w) ==
  /\ Free(p)
  /\ LET g == ListGate(u, w) IN
       IF g = "ok"
       THEN Finish(p, [Resp("list", "ok") EXCEPT !.ids = Listed(links, w, now)])
       ELSE Finish(p, Resp("list", g))
  /\ UNCHANGED <<store, world>>

\* ============================================== memberRouter.deleteInviteLink
\* input.inviteLinkId.toString(): the decimal numeral of the id.  A nanoid(12)
\* code has twelve characters, the numeral of an id below 10^11 has fewer.
toString(n) == CASE n = 1 -> "1" [] n = 2 -> "2" [] n = 3 -> "3" [] OTHER -> "0"

\* the checks of deleteInviteLink: the link is looked up by invite code
DeleteLinkGate(u, id) ==
  IF u = NoUser THEN "Unauthorized"
  ELSE LET l == getInviteLinkByCode(links, toString(id)) IN
         IF l = 0 THEN "NotFound"
         ELSE IF ~IsAdmin(members, u, links[l].ws) THEN "Forbidden"
         ELSE "ok"

DeleteInviteLink(p, u, id) ==
  /\ Free(p)
  /\ LET g == DeleteLinkGate(u, id) IN
       /\ links' = IF g = "ok" THEN deleteInviteLink(links, id) ELSE links
       /\ Finish(p, [Resp("unlink", g) EXCEPT !.lid = id])
  /\ UNCHANGED <<members, seats, mail, world>>

\* ------------------------------------------------------------ environment
Tick ==
  /\ Ready
  /\ now < MaxTime
  /\ now' = now + 1
  /\ resp' = NoResp
  /\ UNCHANGED <<store, registered, env, subs, proc, crashed>>

\* a person signs up
Register(u) ==
  /\ Ready
  /\ u \notin registered
  /\ \A i \in DOMAIN members : members[i].userId # u
  /\ registered' = registered \cup {u}
  /\ resp' = NoResp
  /\ UNCHANGED <<store, now, env, subs, proc, crashed>>

\* the invited person follows the delivered magic link of member m and signs in
AcceptInvite(m, u) ==
  /\ Ready
  /\ m \in DOMAIN members
  /\ <<m, TRUE>> \in mail
  /\ u \in registered
  /\ Email(u) = members[m].email
  /\ members' = acceptInvite(members, m, u)
  /\ resp' = NoResp
  /\ UNCHANGED <<links, seats, mail, world, proc>>

\* the account of u is deleted: usedBy ... ON DELETE SET NULL;
\* createdBy is NOT NULL, so the delete of a link's creator is rejected
DeleteUser(u) ==
  /\ Ready
  /\ u \in registered
  /\ \A p \in Procs : proc[p].user # u
  /\ \A l \in DOMAIN links : links[l].createdBy # u
  /\ registered' = registered \ {u}
  /\ links' = [l \in DOMAIN links |->
                 IF links[l].usedBy = u THEN [links[l] EXCEPT !.usedBy = NoUser] ELSE links[l]]
  /\ resp' = NoResp
  /\ UNCHANGED <<members, seats, mail, now, env, subs, proc, crashed>>

\* the server stops while serving a request
Crash(p) ==
  /\ Ready
  /\ ~Free(p)
  /\ crashed' = IF proc[p].pc = "r_mark" THEN crashed \cup {proc[p].lid} ELSE crashed
  /\ proc' = [proc EXCEPT ![p] = Idle]
  /\ resp' = NoResp
  /\ UNCHANGED <<store, registered, now, env, subs>>

\* ------------------------------------------------------------------ Next
Callers == registered \cup {NoUser}

\* the public ids of the stored rows and one that is not stored
PublicIds == (PubBase + 1)..(PubBase + Len(members) + 1)

One == {"p1"}

InviteBegin(P) ==
  \E p \in P, u \in Callers, w \in WsInputs, e \in Emails : InviteStart(p, u, w, e)

RemoveBegin(P) ==
  \E p \in P, u \in Callers, w \in WsInputs, pub \in PublicIds : RemoveStart(p, u, w, pub)

RedeemBegin(P) ==
  \E p \in P, u \in Users, c \in Codes : RedeemStart(p, u, c)

GenerateBegin(P) ==
  \E p \in P, u \in Callers, w \in WsInputs, r \in Roles, n \in ExpiresInInputs :
    GenerateInviteLink(p, u, w, r, n)

InfoBegin(P) == \E p \in P, c \in Codes : GetInviteInfo(p, c)

ListBegin(P) ==
  \E p \in P, u \in Callers, w \in Ws \cup WsInputs : ListInviteLinks(p, u, w)

\* the ids of the stored links and one that is not stored
LinkIds == 1..(Len(links) + 1)

DeleteLinkBegin(P) == \E p \in P, u \in Callers, id \in LinkIds : DeleteInviteLink(p, u, id)

InviteSteps == \E p \in Procs : InviteSeat(p) \/ InviteCreate(p) \/ InviteCompensate(p)

RemoveSteps == \E p \in Procs : RemoveSoftDelete(p) \/ RemoveSeat(p)

RedeemSteps == \E p \in Procs : RedeemCheckMember(p) \/ RedeemCreate(p) \/ RedeemMark(p)

SignUp == \E u \in Users : Register(u)

SignIn == \E m \in DOMAIN members, u \in Users : AcceptInvite(m, u)

AccountDeleted == \E u \in Users : DeleteUser(u)

Stop == \E p \in Procs : Crash(p)

\* the response reaches the caller; until then the servers wait
Deliver ==
  /\ resp # NoResp
  /\ resp' = NoResp
  /\ UNCHANGED <<store, world, proc>>

Next ==
  \/ Deliver
  \/ InviteBegin(Procs) \/ RemoveBegin(Procs) \/ RedeemBegin(Procs)
  \/ GenerateBegin(Procs) \/ InfoBegin(Procs) \/ ListBegin(Procs) \/ DeleteLinkBegin(Procs)
  \/ InviteSteps \/ RemoveSteps \/ RedeemSteps
  \/ Tick \/ SignUp \/ SignIn \/ AccountDeleted \/ Stop

Spec == Init /\ [][Next]_vars

\* the environment acts between requests
TickBetween == Quiet /\ Tick

SignUpBetween == Quiet /\ SignUp

SignInBetween == Quiet /\ SignIn

AccountDeletedBetween == Quiet /\ AccountDeleted

\* invite, accept, redeem and remove served one request at a time
NextSerial ==
  \/ Deliver
  \/ InviteBegin(One) \/ RemoveBegin(One) \/ RedeemBegin(One) \/ GenerateBegin(One)
  \/ InviteSteps \/ RemoveSteps \/ RedeemSteps
  \/ SignUpBetween \/ SignInBetween

SpecSerial == Init /\ [][NextSerial]_vars

\* the email invite flow and member removal, one request at a time
NextInvite ==
  \/ Deliver
  \/ InviteBegin(One) \/ RemoveBegin(One) \/ InviteSteps \/ RemoveSteps
  \/ SignUpBetween \/ SignInBetween

SpecInvite == Init /\ [][NextInvite]_vars

\* the invite-link flow with the clock, one request at a time
NextLinks ==
  \/ Deliver
  \/ GenerateBegin(One) \/ RedeemBegin(One) \/ InfoBegin(One) \/ ListBegin(One)
  \/ DeleteLinkBegin(One)
  \/ RedeemSteps
  \/ TickBetween \/ SignUpBetween

SpecLinks == Init /\ [][NextLinks]_vars

\* the invite-link flow, requests interleaved
NextRace ==
  \/ Deliver
  \/ GenerateBegin(Procs) \/ RedeemBegin(Procs) \/ RedeemSteps
  \/ Tick \/ SignUp

SpecRace == Init /\ [][NextRace]_vars

\* the invite-link flow served one request at a time, with server stops and
\* account deletions
NextFaults ==
  \/ Deliver
  \/ GenerateBegin(One) \/ RedeemBegin(One) \/ RedeemSteps
  \/ SignUpBetween \/ AccountDeletedBetween
  \/ Stop

SpecFaults == Init /\ [][NextFaults]_vars

\* the handlers behind the admin check, one request at a time
NextAdmin ==
  \/ Deliver
  \/ InviteBegin(One) \/ RemoveBegin(One) \/ GenerateBegin(One) \/ ListBegin(One)
  \/ DeleteLinkBegin(One)
  \/ InviteSteps \/ RemoveSteps
  \/ SignUpBetween

SpecAdmin == Init /\ [][NextAdmin]_vars

\* generateInviteLink called with the defaults of its input schema
GenerateDefaultBegin(P) ==
  \E p \in P, u \in Callers, w \in WsInputs :
    GenerateInviteLink(p, u, w, DefaultRole, DefaultExpiresIn)

\* invite, delete and acceptInviteLink over links of the default role, one
\* request at a time, among the accounts that exist from the start
NextWrites ==
  \/ Deliver
  \/ InviteBegin(One) \/ RemoveBegin(One) \/ RedeemBegin(One) \/ GenerateDefaultBegin(One)
  \/ InviteSteps \/ RemoveSteps \/ RedeemSteps

SpecWrites == Init /\ [][NextWrites]_vars

\* invite alone, requests interleaved, among the accounts that exist from the
\* start
NextInviteRace ==
  \/ Deliver
  \/ InviteBegin(Procs) \/ InviteSteps

SpecInviteRace == Init /\ [][NextInviteRace]_vars

\* delete alone, requests interleaved, while time passes
NextRemoveRace ==
  \/ Deliver
  \/ RemoveBegin(Procs) \/ RemoveSteps
  \/ Tick

SpecRemoveRace == Init /\ [][NextRemoveRace]_vars

\* ================================================================ claims
ActiveRows(w, e) ==
  {i \in Live(members, w) : members[i].email = e /\ members[i].status = "active"}

\* C1: with requests served one at a time, whenever no request is in flight
\* every workspace holds at most one row per email that is not soft-deleted
\* and has status active.
C1_OneActivePerEmail ==
  Quiet => \A w \in Ws, e \in Emails : Cardinality(ActiveRows(w, e)) <= 1

FromLink(l) == {i \in DOMAIN members : members[i].via = "link" /\ members[i].link = l}

\* C2: over any interleaving of redemptions, at most one member row is ever
\* created from one invite link.
C2_OneMemberPerLink == \A l \in DOMAIN links : Cardinality(FromLink(l)) <= 1

\* C3: a link whose redemption stopped after the member row was created and
\* before the link was marked used yields no further member row.
C3_StoppedLinkNotRedeemedAgain == \A l \in crashed : Cardinality(FromLink(l)) <= 1

\* the link of code c exists, is unused and not past its expiration
Redeemable(c) ==
  \E l \in DOMAIN links : links[l].code = c /\ ~links[l].isUsed /\ now <= links[l].expiresAt

\* C4: a redemption passes the validity check exactly when the link of its
\* code exists, is unused and the clock is at most expiresAt; in every other
\* case it ends BadRequest; either way the check writes nothing.
C4_ValidityCheck ==
  [][\A p \in Procs, u \in Users, c \in Codes :
       RedeemStart(p, u, c) =>
         /\ UNCHANGED store
         /\ IF Redeemable(c)
            THEN proc'[p].pc = "r_member" /\ links[proc'[p].lid].code = c /\ resp' = NoResp
            ELSE proc'[p] = Idle /\ resp'.op = "redeem" /\ resp'.kind = "BadRequest"]_vars

\* a redemption passed the check at the very instant its link expires
C4_PassedAtExpiry ==
  \E p \in Procs : proc[p].pc = "r_member" /\ now = links[proc[p].lid].expiresAt

\* C5: the successful end of a redemption leaves its link used, with usedAt
\* and usedBy set; a used link stays used; and every redemption begun on the
\* code of a used link ends BadRequest.
C5_UsedLinkRejected ==
  [][/\ \A p \in Procs :
          (proc[p].pc = "r_mark" /\ resp'.op = "redeem" /\ resp'.kind = "ok") =>
            LET l == links'[proc[p].lid] IN
              l.isUsed /\ l.usedAt # NoTime /\ l.usedBy # NoUser
     /\ \A l \in DOMAIN links :
          links[l].isUsed =>
            l \in DOMAIN links' /\ links'[l].isUsed /\ links'[l].code = links[l].code
     /\ \A p \in Procs, u \in Users, c \in Codes :
          (RedeemStart(p, u, c) /\ \E l \in DOMAIN links : links[l].code = c /\ links[l].isUsed) =>
            resp'.op = "redeem" /\ resp'.kind = "BadRequest"]_vars

\* a redemption of a used link that has not expired was just rejected
C5_SecondRedemptionRejected ==
  /\ resp.op = "redeem" /\ resp.kind = "BadRequest" /\ resp.lid # 0
  /\ links[resp.lid].isUsed /\ links[resp.lid].usedAt # NoTime
  /\ now <= links[resp.lid].expiresAt

\* C6: for every stored link, usedAt and usedBy are both set exactly when
\* isUsed is true.
C6_UsedFieldsIffUsed ==
  \A l \in DOMAIN links :
    (links[l].usedAt # NoTime /\ links[l].usedBy # NoUser) <=> links[l].isUsed

\* C7: when the seat increment of an invite errors, the invite ends Internal
\* with no member row inserted and no dispatch requested.
C7_SeatIncrementFailClosed ==
  [][\A p \in Procs :
       (proc[p].pc = "i_seat" /\ proc'[p] # proc[p] /\ seats' = seats) =>
         /\ NeedsSeat(proc[p].ws)
         /\ proc'[p] = Idle /\ resp'.op = "invite" /\ resp'.kind = "Internal"
         /\ members' = members /\ mail' = mail]_vars

\* an invite just ended Internal on a failed seat increment
C7_IncrementFailed == resp.op = "invite" /\ resp.kind = "Internal" /\ resp.b1

\* C8: when the seat decrement of a removal errors, the removal still returns
\* success and the member stays soft-deleted.
C8_SeatDecrementFailOpen ==
  [][\A p \in Procs :
       (proc[p].pc = "d_seat" /\ proc'[p] # proc[p] /\ seats' = seats) =>
         /\ proc'[p] = Idle /\ resp'.op = "remove" /\ resp'.kind = "ok"
         /\ members'[proc[p].mid].deletedAt # NoTime]_vars

\* a removal just returned success although its seat decrement failed
C8_DecrementFailed ==
  /\ resp.op = "remove" /\ resp.kind = "ok" /\ resp.b1
  /\ members[resp.mid].deletedAt # NoTime

\* C9: a failed dispatch sends the invite to its compensation, which leaves
\* the row just created soft-deleted and ends the invite Internal; no failed
\* invite leaves a live row it created.
C9_DispatchFailureCompensated ==
  [][\A p \in Procs :
       /\ (proc[p].pc = "i_create" /\ <<Len(members) + 1, FALSE>> \in mail') =>
            proc'[p].pc = "i_comp" /\ proc'[p].mid = Len(members) + 1
       /\ (proc[p].pc = "i_comp" /\ proc'[p] # proc[p]) =>
            /\ proc'[p] = Idle /\ resp'.op = "invite" /\ resp'.kind = "Internal"
            /\ members'[proc[p].mid].deletedAt # NoTime
       /\ (proc[p].op = "invite" /\ resp'.op = "invite" /\ resp'.kind # "ok") =>
            \A i \in DOMAIN members' :
              (i \notin DOMAIN members \/ i = proc[p].mid) => members'[i].deletedAt # NoTime]_vars

\* an invite just ended Internal after its dispatch failed
C9_DispatchFailed ==
  /\ resp.op = "invite" /\ resp.kind = "Internal" /\ resp.mid # 0
  /\ <<resp.mid, FALSE>> \in mail

\* C10: a removal whose target row is already soft-deleted ends NotFound.
C10_RemoveDeletedIsNotFound ==
  [][\A p \in Procs :
       (proc[p].pc = "d_soft" /\ proc'[p] # proc[p] /\ members[proc[p].mid].deletedAt # NoTime) =>
         resp'.op = "remove" /\ resp'.kind = "NotFound"]_vars

\* C11: deleteInviteLink called by an admin of the link's workspace with the
\* id of a stored link removes that row and returns success; called with the
\* id of a link that is gone it ends NotFound.
C11_DeleteLinkByAdmin ==
  [][\A p \in Procs, u \in Users, id \in LinkIds :
       DeleteInviteLink(p, u, id) =>
         IF id \in DOMAIN links /\ links[id] # GoneLink
         THEN IsAdmin(members, u, links[id].ws) =>
                resp'.op = "unlink" /\ resp'.kind = "ok" /\ links'[id] = GoneLink
         ELSE resp'.op = "unlink" /\ resp'.kind = "NotFound" /\ links' = links]_vars

\* u is signed in and holds no admin membership of the stored workspace w
NonAdmin(u, w) == u \in registered /\ w \in Ws /\ ~IsAdmin(members, u, w)

\* the request of slot p ended Forbidden and nothing was written or issued
Denied(p) == proc'[p] = Idle /\ resp'.kind = "Forbidden" /\ UNCHANGED store

ValidExpiresIn == {n \in ExpiresInInputs : n \in MinExpiresIn..MaxExpiresIn}

\* every handler behind the admin check but deleteInviteLink denies a non-admin
NonAdminDenied(p, u, w) ==
  /\ \A e \in Emails : InviteStart(p, u, w, e) => Denied(p)
  /\ \A pub \in PublicIds : RemoveStart(p, u, w, pub) => Denied(p)
  /\ \A r \in Roles, n \in ValidExpiresIn : GenerateInviteLink(p, u, w, r, n) => Denied(p)
  /\ ListInviteLinks(p, u, w) => Denied(p)

\* C12: a signed-in caller without the admin role in the target workspace
\* gets Forbidden from invite, delete, generateInviteLink, getInviteLinks and
\* deleteInviteLink (of a stored link), and nothing is written or issued.
C12_NonAdminForbidden ==
  [][\A p \in Procs, u \in Users, w \in Ws :
       NonAdmin(u, w) =>
         /\ NonAdminDenied(p, u, w)
         /\ \A id \in DOMAIN links :
              (links[id].ws = w /\ DeleteInviteLink(p, u, id)) => Denied(p)]_vars

\* the rows of workspace w with email e that are not soft-deleted
LiveWithEmail(w, e) ==
  {i \in DOMAIN members :
     members[i].ws = w /\ members[i].email = e /\ members[i].deletedAt = NoTime}

\* C13: an invite by an admin of the workspace ends Conflict exactly when the
\* workspace holds a row with the target email that is not soft-deleted,
\* whatever its status; rows that are soft-deleted do not count.
C13_ConflictIffLiveEmail ==
  [][\A p \in Procs :
       (Free(p) /\ (proc'[p].op = "invite" \/ resp'.op = "invite")) =>
         \A u \in registered, w \in Ws, e \in Emails :
           (IsAdmin(members, u, w) /\ InviteStart(p, u, w, e)) =>
             /\ UNCHANGED store
             /\ IF LiveWithEmail(w, e) # {}
                THEN proc'[p] = Idle /\ resp'.op = "invite" /\ resp'.kind = "Conflict"
                ELSE resp'.kind # "Conflict"]_vars

\* a second invite to an email whose first invite is still pending just ended
\* Conflict, while an earlier row of that email is soft-deleted
C13_SecondInviteConflict ==
  /\ resp.op = "invite" /\ resp.kind = "Conflict"
  /\ \E i \in LiveWithEmail("w1", resp.email) : members[i].status = "invited"
  /\ \E i \in DOMAIN members : members[i].email = resp.email /\ members[i].deletedAt # NoTime

\* C14: generateInviteLink with expiresIn outside 1..30 is rejected and writes
\* nothing; a link that is created expires expiresIn days after its creation,
\* with expiresIn in 1..30; and no later step moves either instant.
C14_ExpiresInRange ==
  [][/\ \A p \in Procs :
          (Free(p) /\ resp'.op = "generate") =>
            \A u \in Callers, w \in WsInputs, r \in Roles, n \in ExpiresInInputs :
              GenerateInviteLink(p, u, w, r, n) =>
                /\ n \notin MinExpiresIn..MaxExpiresIn =>
                     resp'.kind # "ok" /\ UNCHANGED store
                /\ links' # links =>
                     /\ Len(links') = Len(links) + 1
                     /\ LET l == links'[Len(links')] IN
                          /\ l.createdAt = now
                          /\ l.expiresAt - l.createdAt = n
                          /\ l.expiresAt - l.createdAt \in MinExpiresIn..MaxExpiresIn
     /\ \A l \in DOMAIN links :
          /\ l \in DOMAIN links'
          /\ links'[l] # GoneLink =>
               /\ links'[l].createdAt = links[l].createdAt
               /\ links'[l].expiresAt = links[l].expiresAt]_vars

\* a generateInviteLink request was just rejected for its expiresIn
C14_Rejected ==
  /\ resp.op = "generate" /\ resp.kind = "BadRequest"
  /\ links = << >>

\* C15: past the expiresAt of a stored link getInviteInfo reports isExpired
\* and acceptInviteLink ends BadRequest; and at every time the isExpired that
\* getInviteInfo reports for an unused link is true exactly when
\* acceptInviteLink rejects that link.
C15_ExpiryAgrees ==
  [][\A p \in Procs :
       Free(p) =>
         /\ resp'.op = "info" =>
              \A c \in Codes :
                LET l == getInviteLinkByCode(links, c) IN
                  (l # 0 /\ GetInviteInfo(p, c)) =>
                    /\ now > links[l].expiresAt => resp'.b1
                    /\ ~links[l].isUsed => (resp'.b1 <=> InviteInvalid(links, l, now))
         /\ (resp'.op = "redeem" \/ proc'[p].op = "redeem") =>
              \A u \in Users, c \in Codes :
                LET l == getInviteLinkByCode(links, c) IN
                  (l # 0 /\ RedeemStart(p, u, c)) =>
                    /\ now > links[l].expiresAt => resp'.kind = "BadRequest"
                    /\ ~links[l].isUsed =>
                         (resp'.kind = "BadRequest" <=> isExpired(links, l, now))]_vars

\* getInviteInfo just reported an unused link as expired, past its expiresAt
C15_ReportedExpired ==
  /\ resp.op = "info" /\ resp.kind = "ok" /\ resp.b1 /\ ~resp.b2
  /\ now > links[resp.lid].expiresAt

\* C16: when the redemption of a link by user U returns success, the row it
\* created is a live row of the link's workspace with U's account and email,
\* status active and the role stored on the link, and the link is used with
\* usedBy = U; the row is inserted with status active.
C16_RedeemedMember ==
  [][\A p \in Procs :
       /\ (proc[p].pc = "r_create" /\ proc'[p].pc = "r_mark") =>
            /\ Len(members') = Len(members) + 1
            /\ proc'[p].mid = Len(members')
            /\ members'[Len(members')].status = "active"
       /\ (proc[p].pc = "r_mark" /\ resp'.op = "redeem" /\ resp'.kind = "ok") =>
            LET U == proc[p].user
                m == members'[proc[p].mid]
                l == links'[proc[p].lid]
            IN /\ U \in registered
               /\ m.ws = l.ws /\ m.userId = U /\ m.email = Email(U)
               /\ m.status = "active" /\ m.role = l.role /\ m.deletedAt = NoTime
               /\ l.isUsed /\ l.usedBy = U]_vars

\* a redemption of a link that stores the role admin just returned success
C16_RedeemedAsAdmin ==
  /\ resp.op = "redeem" /\ resp.kind = "ok"
  /\ links[resp.lid].role = "admin" /\ members[resp.mid].role = "admin"

\* C17: a redemption rejected by the validity check gets the same error kind
\* and the same message whether the code is unknown, used or expired, and
\* whoever the caller is.
C17_OneRejection ==
  [][\A p \in Procs :
       (Free(p) /\ resp'.op = "redeem") =>
         \A u \in Users, c \in Codes :
           (RedeemStart(p, u, c) /\ ~Redeemable(c)) =>
             resp'.kind = "BadRequest" /\ resp'.msg = "Invalid or expired invite link"]_vars

\* the redemption of a stored, unused link was just rejected for being expired
C17_RejectedExpired ==
  /\ resp.op = "redeem" /\ resp.kind = "BadRequest" /\ resp.lid # 0
  /\ ~links[resp.lid].isUsed /\ now > links[resp.lid].expiresAt
  /\ resp.msg = "Invalid or expired invite link"

\* the error kinds of the authorization and existence checks
CheckKinds == {"Unauthorized", "Forbidden", "NotFound", "Conflict", "BadRequest"}

\* C18: a call that ends with the error of an authorization or existence
\* check leaves the member rows, the link rows, the seat count and the
\* dispatches as they were when it began: its last step writes nothing, it
\* ends either in its first step or from the membership check of
\* acceptInviteLink, and no step up to that check writes anything.
C18_FailedCheckWritesNothing ==
  [][/\ resp'.kind \in CheckKinds =>
          /\ UNCHANGED store
          /\ \A p \in Procs : proc[p].pc \in {"idle", "r_member"} /\ proc'[p] = Idle
     /\ \A p \in Procs :
          /\ (proc[p].pc # "r_member" /\ proc'[p].pc = "r_member") =>
               Free(p) /\ UNCHANGED store
          /\ proc[p].pc = "r_member" => UNCHANGED store]_vars

\* an acceptInviteLink call just ended Conflict at its membership check
C18_RedeemConflict ==
  /\ resp.op = "redeem" /\ resp.kind = "Conflict" /\ resp.lid # 0
  /\ ~links[resp.lid].isUsed

\* the rows that the step inserts for an email invite
InsertedByInvite == {i \in DOMAIN members' \ DOMAIN members : members'[i].via = "invite"}

\* C19: an invite that needs a seat reaches the insert of its row only
\* through a seat increment that succeeded: it starts at the increment, no
\* row is inserted while the increment is pending, a failed increment ends
\* the call, and rows of email invites are inserted only by a request that
\* is past the increment.
C19_SeatBeforeRow ==
  [][/\ \A p \in Procs :
          /\ (Free(p) /\ proc'[p].op = "invite") =>
               /\ UNCHANGED store
               /\ NeedsSeat(proc'[p].ws) => proc'[p].pc = "i_seat"
          /\ proc[p].pc = "i_seat" =>
               /\ NeedsSeat(proc[p].ws)
               /\ members' = members /\ mail' = mail
               /\ proc'[p].pc = "i_create" => seats'[proc[p].ws] = seats[proc[p].ws] + 1
               /\ seats' = seats => proc'[p].pc \in {"i_seat", "idle"}
     /\ InsertedByInvite # {} =>
          \E p \in Procs :
            /\ proc[p].pc = "i_create"
            /\ \A i \in InsertedByInvite :
                 members'[i].ws = proc[p].ws /\ members'[i].email = proc[p].email]_vars

\* an invite that needed a seat just returned its row, the seat issued
C19_RowAfterSeat ==
  /\ resp.op = "invite" /\ resp.kind = "ok" /\ members[resp.mid].via = "invite"
  /\ NeedsSeat(members[resp.mid].ws) /\ seats[members[resp.mid].ws] >= 1

\* C20: no step removes a member row or gives its id to another row; and the
\* soft delete of delete and of the invite compensation changes nothing but
\* deletedAt and deletedBy of the targeted row, which it sets to the time and
\* the caller when the row was live and leaves alone when it was not.
C20_SoftDeleteOnly ==
  [][/\ Len(members') >= Len(members)
     /\ \A i \in DOMAIN members : members'[i].publicId = members[i].publicId
     /\ \A p \in Procs :
          (proc[p].pc \in {"d_soft", "i_comp"} /\ proc'[p] # proc[p]) =>
            LET m == proc[p].mid IN
              /\ DOMAIN members' = DOMAIN members
              /\ \A i \in DOMAIN members : i # m => members'[i] = members[i]
              /\ members'[m] = [members[m] EXCEPT !.deletedAt = members'[m].deletedAt,
                                                  !.deletedBy = members'[m].deletedBy]
              /\ IF members[m].deletedAt = NoTime
                 THEN members'[m].deletedAt = now /\ members'[m].deletedBy = proc[p].user
                 ELSE members'[m] = members[m]]_vars

\* a delete just soft-deleted a row that is still in status invited
C20_RemovedInvited ==
  /\ resp.op = "remove" /\ resp.kind = "ok"
  /\ members[resp.mid].deletedAt # NoTime /\ members[resp.mid].status = "invited"

\* C21: a row that is active stays active and keeps its account in every
\* step; the only change of status is invited -> active, made by the accept
\* of a delivered invite, which links the account that holds the row's email.
C21_AcceptedOnce ==
  [][\A i \in DOMAIN members :
       /\ members[i].status = "active" =>
            members'[i].status = "active" /\ members'[i].userId = members[i].userId
       /\ members'[i].status # members[i].status =>
            /\ members[i].status = "invited" /\ members'[i].status = "active"
            /\ members[i].via = "invite" /\ <<i, TRUE>> \in mail
            /\ members'[i].userId \in registered
            /\ Email(members'[i].userId) = members[i].email
            /\ members' = acceptInvite(members, i, members'[i].userId)]_vars

\* an email invite sent to a person without an account has been accepted
C21_Accepted ==
  \E i \in DOMAIN members :
    /\ members[i].via = "invite" /\ members[i].status = "active"
    /\ members[i].userId = "u3" /\ <<i, TRUE>> \in mail

\* C22: getInviteInfo leaves every member row, every link row, the seat
\* counts and the sent mail unchanged; for every stored code, used or expired
\* or neither, it returns the link with the stored isUsed and with isExpired
\* computed as now > expiresAt; it ends NotFound exactly when no link has the
\* code.
C22_InfoReadOnly ==
  [][\A p \in Procs :
       (Free(p) /\ resp'.op = "info") =>
         /\ store' = store
         /\ \A c \in Codes :
              GetInviteInfo(p, c) =>
                LET l == getInviteLinkByCode(links, c) IN
                  /\ resp'.kind \in {"ok", "NotFound"}
                  /\ resp'.kind = "NotFound" <=> l = 0
                  /\ l # 0 =>
                       /\ resp'.lid = l
                       /\ resp'.b2 = links[l].isUsed
                       /\ resp'.b1 = (now > links[l].expiresAt)]_vars

\* getInviteInfo just returned the info of a link that is used and expired
C22_InfoOfUsedExpired ==
  /\ resp.op = "info" /\ resp.kind = "ok" /\ resp.b1 /\ resp.b2
  /\ links[resp.lid].isUsed /\ now > links[resp.lid].expiresAt

\* C23: a getInviteLinks call that succeeds is made by an admin of the
\* requested workspace, and every link it returns is a stored link of that
\* workspace that is unused and not expired at the time of the call; the
\* call removes no link, so an expired unused link stays stored.
C23_ListedUnusedUnexpired ==
  [][\A p \in Procs :
       (Free(p) /\ resp'.op = "list" /\ resp'.kind = "ok") =>
         /\ links' = links
         /\ \A u \in Callers, w \in Ws \cup WsInputs :
              ListInviteLinks(p, u, w) =>
                /\ IsAdmin(members, u, w)
                /\ \A l \in resp'.ids :
                     /\ l \in DOMAIN links /\ links[l].ws = w
                     /\ ~links[l].isUsed
                     /\ ~(now > links[l].expiresAt)]_vars

\* a listing just returned nothing while an unused link is stored past its
\* expiresAt
C23_ExpiredHidden ==
  /\ resp.op = "list" /\ resp.kind = "ok" /\ resp.ids = {}
  /\ \E l \in DOMAIN links :
       links[l].ws = "w1" /\ ~links[l].isUsed /\ now > links[l].expiresAt
       /\ IsAdmin(members, "u1", "w1")

\* C24: on cloud, for a workspace with neither a team nor a pro subscription,
\* an invite by an admin for an email not yet in the workspace ends NotFound
\* and a generateInviteLink by an admin ends Forbidden; no invite and no
\* generateInviteLink call on such a workspace succeeds or goes on to a later
\* step, and each leaves the member rows, the link rows, the seat counts and
\* the sent mail unchanged.
C24_BillingGate ==
  [][\A p \in Procs :
       (Free(p) /\ env = "cloud") =>
         /\ (resp'.op = "invite" \/ proc'[p].op = "invite") =>
              \A u \in Callers, w \in Ws, e \in Emails :
                (subs[w] = "none" /\ InviteStart(p, u, w, e)) =>
                  /\ resp'.op = "invite" /\ resp'.kind # "ok"
                  /\ proc'[p] = Idle
                  /\ store' = store
                  /\ (IsAdmin(members, u, w) /\ e \notin WorkspaceEmails(members, w)) =>
                       resp'.kind = "NotFound"
         /\ resp'.op = "generate" =>
              \A u \in Callers, w \in Ws :
                (subs[w] = "none" /\ GenerateInviteLink(p, u, w, DefaultRole, DefaultExpiresIn)) =>
                  /\ resp'.kind # "ok"
                  /\ store' = store
                  /\ IsAdmin(members, u, w) => resp'.kind = "Forbidden"]_vars

\* on cloud an invite into a workspace without a plan was just refused at the
\* billing gate, with nothing stored and no seat added
C24_InviteWithoutPlan ==
  /\ env = "cloud" /\ subs["w1"] = "none"
  /\ resp.op = "invite" /\ resp.kind = "NotFound"
  /\ resp.msg = "does not have an active subscription"
  /\ Len(members) = 2 /\ seats["w1"] = 0

\* C25: no step of generateInviteLink and no step of acceptInviteLink changes
\* the seat count of any workspace, whatever the deployment mode and the
\* subscription of the workspace.
C25_LinksLeaveSeats ==
  [][\A p \in Procs :
       (\/ resp'.op \in {"generate", "redeem"}
        \/ proc[p].op = "redeem" \/ proc'[p].op = "redeem") => seats' = seats]_vars

\* on cloud, under a team subscription with counted seats, a redemption just
\* added a live member and the seat count is still what it was at the start
C25_RedeemedWithoutSeat ==
  /\ env = "cloud" /\ subs["w1"] = "team"
  /\ resp.op = "redeem" /\ resp.kind = "ok"
  /\ resp.mid \in Live(members, "w1") /\ members[resp.mid].via = "link"
  /\ seats["w1"] = 0

\* C26: an invite passes the pre-check only when the workspace holds no row
\* with the email that is not soft-deleted, and the check is not repeated at
\* the insert: every invite that is past the check inserts its invited row,
\* also when another invite has inserted a row for the same workspace and
\* email in between.  Two concurrent invites for one email can so leave two
\* rows that are not soft-deleted.
C26_InsertAfterStaleCheck ==
  [][\A p \in Procs :
       /\ (Free(p) /\ proc'[p].op = "invite") =>
            LiveWithEmail(proc'[p].ws, proc'[p].email) = {}
       /\ (proc[p].pc = "i_create" /\ proc'[p] # proc[p]) =>
            /\ Len(members') = Len(members) + 1
            /\ LET m == members'[Len(members')] IN
                 /\ m.ws = proc[p].ws /\ m.email = proc[p].email
                 /\ m.status = "invited" /\ m.deletedAt = NoTime]_vars

\* two invites for one email ran side by side and both succeeded: the
\* workspace holds two invited rows with the email, neither soft-deleted
C26_TwoLiveRows ==
  \E i, j \in LiveWithEmail("w1", Email("u3")) :
    /\ i # j
    /\ members[i].via = "invite" /\ members[j].via = "invite"
    /\ <<i, TRUE>> \in mail /\ <<j, TRUE>> \in mail

\* C27: a delete request made for workspace W soft-deletes only a row of W,
\* and issues its seat decrement on W only for a row of W.
C27_RemoveWithinWorkspace ==
  [][\A p \in Procs :
       /\ (proc[p].pc = "d_soft" /\ proc'[p] # proc[p]) =>
            \A i \in DOMAIN members :
              members'[i].deletedAt # members[i].deletedAt => members[i].ws = proc[p].ws
       /\ (proc[p].pc = "d_seat" /\ proc'[p] # proc[p]) =>
            members[proc[p].mid].ws = proc[p].ws]_vars

\* C28: whatever the interleaving of delete requests for one member, the
\* soft-delete of a request takes effect exactly when the row is not yet
\* soft-deleted: that request records its own time and caller and goes on to
\* the seat decrement or to success, every other request changes nothing and
\* ends with an error; deletedAt and deletedBy once set are never changed;
\* a delete succeeds only through a soft-delete that took effect, and no two
\* requests are at the seat decrement for the same member.
C28_OneRemovalWins ==
  [][/\ \A i \in DOMAIN members :
          members[i].deletedAt # NoTime =>
            /\ members'[i].deletedAt = members[i].deletedAt
            /\ members'[i].deletedBy = members[i].deletedBy
     /\ \A p \in Procs :
          /\ (proc[p].pc = "d_soft" /\ proc'[p] # proc[p]) =>
               LET m == proc[p].mid IN
                 IF members[m].deletedAt = NoTime
                 THEN /\ members'[m].deletedAt = now /\ members'[m].deletedBy = proc[p].user
                      /\ \/ proc'[p].pc = "d_seat" /\ proc'[p].mid = m
                         \/ resp'.op = "remove" /\ resp'.kind = "ok" /\ resp'.mid = m
                 ELSE /\ members' = members
                      /\ resp'.op = "remove" /\ resp'.kind = "Internal"
          /\ (proc[p].pc # "d_seat" /\ proc'[p].pc = "d_seat") => proc[p].pc = "d_soft"
          /\ (proc[p].pc = "d_seat" /\ proc'[p] # proc[p]) =>
               /\ resp'.op = "remove" /\ resp'.kind = "ok" /\ resp'.mid = proc[p].mid
               /\ \A w \in Ws : seats'[w] >= seats[w] - 1
          /\ \A q \in Procs \ {p} :
               (proc'[p].pc = "d_seat" /\ proc'[q].pc = "d_seat") => proc'[p].mid # proc'[q].mid
     /\ (resp'.op = "remove" /\ resp'.kind = "ok" /\ resp' # resp) =>
          \E p \in Procs : proc[p].pc \in {"d_soft", "d_seat"} /\ proc'[p] = Idle]_vars

\* of two delete requests in flight for one member, one has soft-deleted the
\* row and is at its seat decrement, the other has just ended with an error
C28_LoserRejected ==
  /\ resp.op = "remove" /\ resp.kind = "Internal"
  /\ \E q \in Procs :
       /\ proc[q].pc = "d_seat" /\ proc[q].mid = resp.mid
       /\ members[resp.mid].deletedBy = proc[q].user

\* C29: an invite that ends with an error leaves the seat count of its
\* workspace as it was before the call: an error before or at the seat
\* increment changes no seat count, and an error after an increment that
\* succeeded takes the seat back.
C29_FailedInviteKeepsSeats ==
  [][/\ (resp'.op = "invite" /\ resp'.kind # "ok" /\ resp' # resp /\ proc' = proc) =>
          seats' = seats
     /\ \A p \in Procs :
          (proc[p].op = "invite" /\ proc'[p] = Idle /\ resp'.kind # "ok") =>
            seats' = IF proc[p].pc = "i_comp" /\ NeedsSeat(proc[p].ws)
                     THEN [seats EXCEPT ![proc[p].ws] = @ - 1]
                     ELSE seats]_vars

\* C30: on cloud, for a workspace under a team subscription with counted
\* seats, the net seat adjustment (increments minus decrements) is never
\* negative while the members the workspace started with are all in place.
C30_NetSeatsNonNegative ==
  \A w \in Ws :
    (NeedsSeat(w) /\ \A i \in Rows("seed") : members[i].deletedAt = NoTime) =>
      seats[w] >= 0

\* C31: a seat count changes only by a seat call of an invite or a delete
\* made on cloud for a workspace whose team subscription has a handle and
\* counts its seats; on self-host, under a pro subscription, under a team
\* subscription with unlimited seats or without a handle, no invite and no
\* delete reaches a seat call, and both succeed with the seat counts as they
\* were.
C31_SeatCallOnlyWhenCounted ==
  [][/\ seats' # seats =>
          \E p \in Procs :
            /\ proc[p].pc \in {"i_seat", "d_seat"} /\ proc'[p] # proc[p]
            /\ env = "cloud" /\ subs[proc[p].ws] = "team"
     /\ \A p \in Procs :
          /\ proc'[p].pc \in {"i_seat", "d_seat"} =>
               env = "cloud" /\ subs[proc'[p].ws] = "team"
          /\ (proc[p].pc = "i_create" /\ proc'[p] # proc[p]
                /\ ~(env = "cloud" /\ subs[proc[p].ws] = "team")) =>
               /\ seats' = seats
               /\ <<Len(members'), TRUE>> \in mail' =>
                    resp'.op = "invite" /\ resp'.kind = "ok"
          /\ (proc[p].pc = "d_soft" /\ proc'[p] # proc[p]
                /\ ~(env = "cloud" /\ subs[proc[p].ws] = "team")
                /\ members[proc[p].mid].deletedAt = NoTime) =>
               /\ seats' = seats
               /\ resp'.op = "remove" /\ resp'.kind = "ok"]_vars

\* on cloud, under a team subscription with unlimited seats, a delete of a
\* member just succeeded and no seat was counted
C31_RemovedUnderUnlimited ==
  /\ env = "cloud" /\ subs["w1"] = "teamUnlimited"
  /\ resp.op = "remove" /\ resp.kind = "ok"
  /\ members[resp.mid].ws = "w1" /\ members[resp.mid].via = "invite"
  /\ members[resp.mid].deletedAt # NoTime
  /\ seats["w1"] = 0

\* C32: a row whose deletedAt is set keeps its status and its account in
\* every step: an accept of a soft-deleted invite changes nothing.
C32_DeletedNeverAccepted ==
  [][\A i \in DOMAIN members :
       members[i].deletedAt # NoTime =>
         /\ members'[i].status = members[i].status
         /\ members'[i].userId = members[i].userId]_vars

\* C33: whatever the interleaving of redemptions, a user holds at most one
\* row of a workspace that is active and not soft-deleted.
C33_OneActiveRowPerUser ==
  \A w \in Ws, u \in Users :
    Cardinality({i \in Live(members, w) :
                   members[i].userId = u /\ members[i].status = "active"}) <= 1

\* C34: at every time, the links a getInviteLinks call returns for a
\* workspace are exactly the stored links of that workspace that pass the
\* validity check of acceptInviteLink at that time (unused, now <= expiresAt).
C34_ListedIffRedeemable ==
  [][\A p \in Procs :
       (Free(p) /\ resp'.op = "list" /\ resp'.kind = "ok") =>
         \A u \in Callers, w \in Ws \cup WsInputs :
           ListInviteLinks(p, u, w) =>
             resp'.ids = {l \in DOMAIN links :
                            links[l].ws = w /\ ~InviteInvalid(links, l, now)}]_vars

====
